---- MODULE Spec2Model ----
(***************************************************************************)
(* Model of the Sharpe-ratio sweep of the factor-portfolio toolkit:        *)
(*   experiments/sharpe_sweep.py  run_sharpe_sweep, _compute_past_return_avg*)
(*   features/rff.py              rff_features                              *)
(*   features/pls.py              pls_reduce                                *)
(*   portfolio/markowitz.py       expected_return_and_cov,                  *)
(*                                ridge_markowitz_weights                   *)
(*                                                                          *)
(* Numbers.  A real number is a pair <<n, d>> (the fraction n/d in lowest   *)
(* terms, d > 0); NaN is <<0, 0>>.  The linear algebra of one trading day   *)
(* is carried out exactly on these fractions.  The aggregation of a cell    *)
(* (np.mean, np.std, mu / sig) is carried out in binary floating point with *)
(* MantissaBits significant bits and round-half-to-even, because the code   *)
(* tests the computed standard deviation against 0 exactly.                 *)
(***************************************************************************)
EXTENDS Integers, Sequences, FiniteSets, TLC

(***************************************************************************)
(* Bounds of the model                                                      *)
(***************************************************************************)
MaxDays == 7
MaxAssets == 3
MaxNFactors == 2
MaxLambda == 2
MaxGrid == 2
MantissaBits == 3
MaxReturns == 3

(***************************************************************************)
(* Program constants                                                        *)
(***************************************************************************)
Window == 5
RngModulus == 31
RngMultiplier == 11
RngIncrement == 7

(***************************************************************************)
(* Exact fractions                                                          *)
(***************************************************************************)
NaN == <<0, 0>>

Abs(i) == IF i < 0 THEN -i ELSE i

RECURSIVE GCD(_, _)
GCD(a, b) == IF b = 0 THEN a ELSE GCD(b, a % b)

Rat(n, d) ==
    IF d = 0 THEN NaN
    ELSE LET g == GCD(Abs(n), Abs(d))
             s == IF d < 0 THEN -1 ELSE 1
         IN  <<(s * n) \div g, Abs(d) \div g>>

R(i) == <<i, 1>>

IsNaN(a) == a[2] = 0

\* sums over the least common denominator, to keep the integers small
RAdd(a, b) == IF IsNaN(a) \/ IsNaN(b) THEN NaN
              ELSE LET g == GCD(a[2], b[2])
                   IN  Rat(a[1] * (b[2] \div g) + b[1] * (a[2] \div g),
                           a[2] * (b[2] \div g))

RNeg(a) == <<-a[1], a[2]>>

RSub(a, b) == RAdd(a, RNeg(b))

RMul(a, b) == IF IsNaN(a) \/ IsNaN(b) THEN NaN
              ELSE Rat(a[1] * b[1], a[2] * b[2])

\* IEEE division as the code uses it: 0/0 and NaN operands give NaN.  A
\* nonzero numerator over 0 does not occur in the code paths modelled (every
\* such division is guarded), and is NaN here.
RDiv(a, b) == IF IsNaN(a) \/ IsNaN(b) THEN NaN
              ELSE Rat(a[1] * b[2], a[2] * b[1])

\* a > b; false when either side is NaN, as for IEEE comparisons
RGt(a, b) == ~IsNaN(a) /\ ~IsNaN(b) /\ a[1] * b[2] > b[1] * a[2]

RECURSIVE RSum(_)
RSum(s) == IF s = <<>> THEN R(0) ELSE RAdd(s[1], RSum(Tail(s)))

(***************************************************************************)
(* Sequences                                                                *)
(***************************************************************************)
Range(s) == {s[i] : i \in DOMAIN s}

\* the sequence s itself, with its elements computed once
Strict(s) == s \o <<>>

\* the elements of s whose position is in the set keep, in order
RECURSIVE SelectAt(_, _)
SelectAt(s, keep) ==
    IF s = <<>> THEN <<>>
    ELSE LET front == SelectAt(SubSeq(s, 1, Len(s) - 1), keep)
         IN  IF Len(s) \in keep THEN Append(front, s[Len(s)]) ELSE front

\* values in order of first appearance (pandas Series.unique)
RECURSIVE Unique(_)
Unique(s) ==
    IF s = <<>> THEN <<>>
    ELSE LET u == Unique(SubSeq(s, 1, Len(s) - 1))
             x == s[Len(s)]
         IN  IF x \in Range(u) THEN u ELSE Append(u, x)

(***************************************************************************)
(* Data frames.  A frame is [columns |-> set of names, rows |-> sequence of *)
(* records]; every row has a field per column and the field "idx", its      *)
(* index label.                                                             *)
(***************************************************************************)
KeyLess(r, q) ==
    \/ r.TradingDay < q.TradingDay
    \/ r.TradingDay = q.TradingDay /\ r.SecuCode < q.SecuCode

\* number of rows of the sequence that sort before row r, ties by position
SortRank(rows, i) ==
    Cardinality({j \in DOMAIN rows :
        \/ KeyLess(rows[j], rows[i])
        \/ ~KeyLess(rows[i], rows[j]) /\ j < i})

\* df.sort_values(["TradingDay", "SecuCode"]): a stable sort, labels kept
sort_values(f) ==
    [f EXCEPT !.rows =
        [p \in DOMAIN f.rows |->
            f.rows[CHOOSE i \in DOMAIN f.rows : SortRank(f.rows, i) = p - 1]]]

\* df.reset_index(drop=True): labels 0 .. n-1 in row order
reset_index(f) ==
    [f EXCEPT !.rows = [p \in DOMAIN f.rows |-> [f.rows[p] EXCEPT !.idx = p - 1]]]

\* the column as a Series: a sequence of [idx, val]
Column(f, c) == [p \in DOMAIN f.rows |-> [idx |-> f.rows[p].idx, val |-> f.rows[p][c]]]

\* x.rolling(window, min_periods=window).mean() at position k of the values
\* xs of one asset: the mean of the window ending at k, NaN for a window that
\* is short or holds a NaN
RollingMean(xs, k, window) ==
    IF k < window \/ \E i \in (k - window + 1)..k : IsNaN(xs[i]) THEN NaN
    ELSE RDiv(RSum(SubSeq(xs, k - window + 1, k)), R(window))

\* variant without .shift(1): the window ends on the row itself
UnshiftedRollingMean(xs, k, window) == RollingMean(xs, k, window)

\* .shift(1): position k gets the value of position k - 1, the first one NaN
ShiftedRollingMean(xs, k, window) ==
    IF k = 1 THEN NaN ELSE RollingMean(xs, k - 1, window)

\* df.groupby("SecuCode")["ret"].transform(...): per row, the asset's group
\* in frame order, and the transformed value at the row's place in its group
_compute_past_return_avg(f, window) ==
    [p \in DOMAIN f.rows |->
        LET group == {q \in DOMAIN f.rows : f.rows[q].SecuCode = f.rows[p].SecuCode}
            xs    == SelectAt([q \in DOMAIN f.rows |-> f.rows[q].ret], group)
            k     == Cardinality({q \in group : q <= p})
        IN  [idx |-> f.rows[p].idx, val |-> ShiftedRollingMean(xs, k, window)]]

\* series.reindex(index): the values at the labels of index, NaN where the
\* series has no such label
Reindex(series, index) ==
    [p \in DOMAIN index |->
        IF \E q \in DOMAIN series : series[q].idx = index[p]
        THEN series[CHOOSE q \in DOMAIN series : series[q].idx = index[p]].val
        ELSE NaN]

\* df[name] = series, in place on the frame: aligned on the index labels
SetColumn(f, name, series) ==
    [columns |-> f.columns \cup {name},
     rows |-> [p \in DOMAIN f.rows |->
        LET r == f.rows[p]
            v == Reindex(series, <<r.idx>>)[1]
        IN  [c \in DOMAIN r \cup {name} |-> IF c = name THEN v ELSE r[c]]]]

\* df.dropna(subset=cols): the rows with no NaN in the columns cols
dropna(f, cols) ==
    [f EXCEPT !.rows =
        SelectAt(f.rows, {p \in DOMAIN f.rows : \A c \in cols : ~IsNaN(f.rows[p][c])})]

(***************************************************************************)
(* Binary floating point with MantissaBits significant bits                 *)
(***************************************************************************)
RECURSIVE Pow2(_)
Pow2(k) == IF k = 0 THEN 1 ELSE 2 * Pow2(k - 1)

\* round-half-to-even of the positive fraction n/d to an integer
RoundHalfEven(n, d) ==
    LET q == n \div d
        r == n - q * d
    IN  IF 2 * r > d \/ (2 * r = d /\ q % 2 = 1) THEN q + 1 ELSE q

\* the positive fraction (n/d) * (up/down) rounded to MantissaBits bits:
\* n/d is first brought into [2^(MantissaBits-1), 2^MantissaBits)
RECURSIVE FlPos(_, _, _, _)
FlPos(n, d, up, down) ==
    IF n >= d * Pow2(MantissaBits) THEN FlPos(n, 2 * d, 2 * up, down)
    ELSE IF n < d * Pow2(MantissaBits - 1) THEN FlPos(2 * n, d, up, 2 * down)
    ELSE Rat(RoundHalfEven(n, d) * up, down)

\* the nearest floating-point number to the fraction a
Fl(a) ==
    IF IsNaN(a) THEN NaN
    ELSE IF a[1] = 0 THEN R(0)
    ELSE IF a[1] < 0 THEN RNeg(FlPos(-a[1], a[2], 1, 1))
    ELSE FlPos(a[1], a[2], 1, 1)

FAdd(a, b) == Fl(RAdd(a, b))
FSub(a, b) == Fl(RSub(a, b))
FMul(a, b) == Fl(RMul(a, b))
FDiv(a, b) == Fl(RDiv(a, b))

\* the square root of the positive fraction (n/d) * (up/down)^2, correctly
\* rounded: n/d is first brought into [4^(MantissaBits-1), 4^MantissaBits)
RECURSIVE FSqrtPos(_, _, _, _)
FSqrtPos(n, d, up, down) ==
    IF n >= d * Pow2(2 * MantissaBits) THEN FSqrtPos(n, 4 * d, 2 * up, down)
    ELSE IF n < d * Pow2(2 * MantissaBits - 2) THEN FSqrtPos(4 * n, d, up, 2 * down)
    ELSE LET fl == n \div d
             m  == CHOOSE k \in 0..Pow2(MantissaBits) : k * k <= fl /\ fl < (k + 1) * (k + 1)
             hi == \/ 4 * n > (2 * m + 1) * (2 * m + 1) * d
                   \/ 4 * n = (2 * m + 1) * (2 * m + 1) * d /\ m % 2 = 1
         IN  Rat((IF hi THEN m + 1 ELSE m) * up, down)

\* np.sqrt: NaN for NaN and for a negative argument
FSqrt(a) ==
    IF IsNaN(a) \/ a[1] < 0 THEN NaN
    ELSE IF a[1] = 0 THEN R(0)
    ELSE FSqrtPos(a[1], a[2], 1, 1)

\* np.add.reduce over the list, left to right
RECURSIVE FSum(_)
FSum(xs) == IF xs = <<>> THEN R(0) ELSE FAdd(FSum(SubSeq(xs, 1, Len(xs) - 1)), xs[Len(xs)])

\* np.mean(xs): the sum divided by the count; 0/0 = NaN for an empty list
NpMean(xs) == FDiv(FSum(xs), R(Len(xs)))

\* variant with the sample divisor N - 1 (ddof=1)
NpVarSample(xs) ==
    LET mu == FDiv(FSum(xs), R(Len(xs)))
        sq == [i \in DOMAIN xs |-> FMul(FSub(xs[i], mu), FSub(xs[i], mu))]
    IN  FDiv(FSum(sq), R(Len(xs) - 1))

\* np.var(xs, ddof=0): the mean of the squared deviations from np.mean
NpVar(xs) ==
    LET mu == NpMean(xs)
        sq == [i \in DOMAIN xs |-> FMul(FSub(xs[i], mu), FSub(xs[i], mu))]
    IN  FDiv(FSum(sq), R(Len(xs)))

\* np.std(xs, ddof=0)
NpStd(xs) == FSqrt(NpVar(xs))

(***************************************************************************)
(* Vectors and matrices of fractions.  A matrix is a sequence of rows.      *)
(***************************************************************************)
Dot(u, v) == RSum([i \in DOMAIN u |-> RMul(u[i], v[i])])

HasNaN(v) == \E i \in DOMAIN v : IsNaN(v[i])

\* X.T @ y for X with d columns
TransposeTimes(X, y, d) ==
    [j \in 1..d |-> RSum([i \in DOMAIN X |-> RMul(X[i][j], y[i])])]

ColumnMean(X, j) == RDiv(RSum([i \in DOMAIN X |-> X[i][j]]), R(Len(X)))

\* np.cov(X.T): the sample covariance of the d columns over the rows of X,
\* divisor (rows - 1); one row gives 0/0 = NaN in every entry
NpCov(X, d) ==
    LET avg == Strict([j \in 1..d |-> ColumnMean(X, j)])
        Xc  == Strict([i \in DOMAIN X |-> Strict([j \in 1..d |-> RSub(X[i][j], avg[j])])])
    IN  [j \in 1..d |-> [k \in 1..d |->
            RDiv(RSum([i \in DOMAIN X |-> RMul(Xc[i][j], Xc[i][k])]), R(Len(X) - 1))]]

\* cov + lam * I
AddRidge(cov, lam) ==
    [j \in DOMAIN cov |-> [k \in DOMAIN cov |->
        IF j = k THEN RAdd(cov[j][k], lam) ELSE cov[j][k]]]

RAbs(a) == <<Abs(a[1]), a[2]>>

\* the row of the largest absolute value in the first column (the first such
\* row), as LAPACK's partial pivoting picks it
PivotRow(A) ==
    CHOOSE p \in DOMAIN A :
        /\ \A i \in DOMAIN A : ~RGt(RAbs(A[i][1]), RAbs(A[p][1]))
        /\ \A i \in DOMAIN A : i < p => RGt(RAbs(A[p][1]), RAbs(A[i][1]))

\* Gaussian elimination of A x = b in exact arithmetic:
\* [singular |-> TRUE] when a pivot is 0, else [singular |-> FALSE, x |-> x]
RECURSIVE Eliminate(_, _)
Eliminate(A, b) ==
    IF Len(A) = 0 THEN [singular |-> FALSE, x |-> <<>>]
    ELSE
    LET n     == Len(A)
        p     == PivotRow(A)
        piv   == A[p][1]
        rest  == SelectAt([i \in 1..n |-> i], (1..n) \ {p})
        fac   == Strict([r \in 1..(n - 1) |-> RDiv(A[rest[r]][1], piv)])
        subA  == Strict([r \in 1..(n - 1) |-> Strict([c \in 1..(n - 1) |->
                    RSub(A[rest[r]][c + 1], RMul(fac[r], A[p][c + 1]))])])
        subb  == Strict([r \in 1..(n - 1) |-> RSub(b[rest[r]], RMul(fac[r], b[p]))])
        sub   == Eliminate(subA, subb)
    IN  IF piv[1] = 0 \/ sub.singular THEN [singular |-> TRUE, x |-> <<>>]
        ELSE [singular |-> FALSE,
              x |-> <<RDiv(RSub(b[p], RSum([c \in 1..(n - 1) |->
                                            RMul(A[p][c + 1], sub.x[c])])), piv)>>
                    \o sub.x]

\* np.linalg.solve(Q, F): raises LinAlgError for a singular Q; a Q or F
\* holding NaN goes through LAPACK without an error and gives NaN
LinalgSolve(Q, F) ==
    IF HasNaN(F) \/ \E j \in DOMAIN Q : HasNaN(Q[j])
    THEN [raised |-> FALSE, x |-> [j \in DOMAIN F |-> NaN]]
    ELSE LET e == Eliminate(Q, F)
         IN  [raised |-> e.singular, x |-> e.x]

(***************************************************************************)
(* features/rff.py                                                          *)
(***************************************************************************)
\* The seeded generator: a linear congruential generator stands for PCG64.
\* np.random.default_rng(seed): the state the seed gives
default_rng(seed) == seed % RngModulus

RngStep(g) == (RngMultiplier * g + RngIncrement) % RngModulus

\* the generator state after k draws
RECURSIVE RngAfter(_, _)
RngAfter(g, k) == IF k = 0 THEN g ELSE RngStep(RngAfter(g, k - 1))

\* one standard normal draw, quantised to -1, 0, 1
NormalOf(g) == R((g % 3) - 1)

\* rng.normal(0.0, 1.0, size=(k, n)): k * n draws, filled in row-major order
RngNormal(g, k, n) ==
    [c \in 1..k |-> [j \in 1..n |-> NormalOf(RngAfter(g, (c - 1) * n + j))]]

\* the candidates of line 38
Gammas == <<Rat(5, 10), Rat(6, 10), Rat(7, 10), Rat(8, 10), Rat(9, 10), Rat(10, 10)>>

\* rng.choice(Gammas): one further draw
RngChoice(g) == Gammas[(RngStep(g) % Len(Gammas)) + 1]

\* the angle a (radians) in tenths of a radian, reduced to one period (~63)
AngleTenths(a) == ((a[1] * 10) \div a[2]) % 63

\* np.cos and np.sin, rounded to the nearest integer
NpCos(a) ==
    LET t == AngleTenths(a)
    IN  IF t <= 10 \/ t >= 53 THEN R(1) ELSE IF t >= 21 /\ t <= 41 THEN R(-1) ELSE R(0)

NpSin(a) ==
    LET t == AngleTenths(a)
    IN  IF t >= 6 /\ t <= 26 THEN R(1) ELSE IF t >= 37 /\ t <= 57 THEN R(-1) ELSE R(0)

\* np.sqrt(2.0 / n) for n > 0, rounded to the nearest multiple of 1/2
Sqrt2Over(n) ==
    Rat(CHOOSE h \in 0..3 : (2 * h - 1) * (2 * h - 1) * n <= 32
                              /\ 32 < (2 * h + 1) * (2 * h + 1) * n, 2)

\* variant with one generator carried from call to call
RngCarried(seed, left) == IF left = 0 THEN default_rng(seed) ELSE left

\* the generator a call of rff_features draws from (line 36): a fresh one,
\* seeded from the configuration, whatever state the previous call left
RngOfCall(seed, left) == default_rng(seed)

\* rff_features(X, factor_names, n_factors, cfg), X the m x k matrix of the
\* factor columns; left is the generator state the previous call ended in.
\*   raised = "ValueError"        rng.normal with a negative dimension
\*   raised = "ZeroDivisionError" 2.0 / n_factors with n_factors = 0
\* The result frame has the default index 0 .. m-1 and 2 * n_factors columns.
rff_features(X, k, n_factors, seed, left) ==
    LET g0    == RngOfCall(seed, left)
        nn    == IF n_factors < 0 THEN 0 ELSE n_factors
        omega == Strict([c \in 1..k |-> Strict(RngNormal(g0, k, nn)[c])])
        g1    == RngAfter(g0, k * nn)
        gamma == RngChoice(g1)
        proj  == Strict([i \in DOMAIN X |-> Strict([j \in 1..nn |->
                    RMul(RSum([c \in 1..k |-> RMul(X[i][c], omega[c][j])]), gamma)])])
        feats == [i \in DOMAIN X |-> [j \in 1..(2 * nn) |->
                    IF j <= nn THEN RMul(Sqrt2Over(nn), NpCos(proj[i][j]))
                    ELSE RMul(Sqrt2Over(nn), NpSin(proj[i][j - nn]))]]
    IN  IF n_factors < 0
        THEN [raised |-> "ValueError", rng |-> g0, omega |-> <<>>, gamma |-> NaN,
              index |-> <<>>, values |-> <<>>, ncols |-> 0]
        ELSE IF n_factors = 0
        THEN [raised |-> "ZeroDivisionError", rng |-> RngStep(g1), omega |-> omega,
              gamma |-> gamma, index |-> <<>>, values |-> <<>>, ncols |-> 0]
        ELSE [raised |-> "", rng |-> RngStep(g1), omega |-> omega, gamma |-> gamma,
              index |-> [i \in DOMAIN X |-> i - 1], values |-> feats,
              ncols |-> 2 * n_factors]

(***************************************************************************)
(* features/pls.py                                                          *)
(***************************************************************************)
\* pls_reduce(X, y, n_components) for the feature frame X (index, values,
\* ncols) and the target series y.  PLSRegression.fit raises ValueError for
\* fewer than 2 samples and for n_components outside 1 .. number of features.
\* The scores of the first component are X_c (X_c^T y_c), X_c and y_c the
\* centred data; the library's positive normalisations are left out, and
\* further components are not modelled (the model asks for at most one
\* component that the library accepts).  The result keeps X's index.
pls_reduce(index, X, ncols, y, n_components) ==
    LET yv   == [i \in DOMAIN X |-> y[i]]
        ybar == RDiv(RSum(yv), R(Len(X)))
        avg  == Strict([j \in 1..ncols |-> ColumnMean(X, j)])
        Xc   == Strict([i \in DOMAIN X |-> Strict([j \in 1..ncols |-> RSub(X[i][j], avg[j])])])
        yc   == Strict([i \in DOMAIN X |-> RSub(yv[i], ybar)])
        u    == Strict(TransposeTimes(Xc, yc, ncols))
    IN  IF Len(X) < 2 \/ n_components < 1 \/ n_components > ncols
        THEN [raised |-> "ValueError", index |-> <<>>, values |-> <<>>, ncols |-> 0]
        ELSE [raised |-> "", index |-> index,
              values |-> [i \in DOMAIN X |-> [c \in 1..n_components |-> Dot(Xc[i], u)]],
              ncols |-> n_components]

(***************************************************************************)
(* portfolio/markowitz.py                                                   *)
(***************************************************************************)
\* expected_return_and_cov(factors, expected_return): the series is aligned
\* on the index of the factors; F_t = X^T y, cov = np.cov(X^T)
expected_return_and_cov(index, X, ncols, series) ==
    LET y == Reindex(series, index)
    IN  [F_t |-> TransposeTimes(X, y, ncols), cov |-> NpCov(X, ncols)]

\* f"Lambda_{lam}"
LambdaLabel(lam) == <<"Lambda_", lam>>

\* ridge_markowitz_weights(F_t, cov, lambdas): per lambda the solution of
\* (cov + lam I) w = F_t, keyed by the label; np.linalg.solve's LinAlgError
\* is not caught
ridge_markowitz_weights(F_t, cov, lambdas) ==
    LET sol(lam) == LinalgSolve(Strict([j \in DOMAIN cov |-> Strict(AddRidge(cov, lam)[j])]),
                                F_t)
    IN  IF \E i \in DOMAIN lambdas : sol(lambdas[i]).raised
        THEN [raised |-> "LinAlgError", out |-> <<>>]
        ELSE [raised |-> "",
              out |-> [i \in DOMAIN lambdas |->
                        [label |-> LambdaLabel(lambdas[i]), w |-> sol(lambdas[i]).x]]]

(***************************************************************************)
(* experiments/sharpe_sweep.py: the state of one call of run_sharpe_sweep   *)
(***************************************************************************)
VARIABLES
    heap,           \* the data frames alive, by object reference
    df,             \* the reference the local name df is bound to
    cfg,            \* ExperimentConfig: n_factors_range, lambdas, random_seed,
                    \*   n_pls_components
    use_pls,        \* the argument use_pls
    pc,             \* the position in run_sharpe_sweep
    raised,         \* the exception that ended the call, "" if none
    trading_days,   \* line 59
    mean_df, std_df, sharpe_df,     \* lines 62-64
    cell,           \* the number of (n_factors, lam) iterations begun
    daily_returns,  \* line 70
    di,             \* the number of days of trading_days iterated in the cell
    day_df, exp_ret, realized_ret,  \* lines 73-77
    feats,          \* lines 80-85: [index, values, ncols]
    F_t, cov, w, ofs_Ft,            \* lines 88-95
    rng,            \* the state the generator of the last rff_features call ended in
    trace,          \* history: the steps of the daily evaluations of the cell
    writes,         \* history: the .loc assignments into the three matrices
    rff_log,        \* history: the calls of rff_features
    singular        \* history: the cells in which np.linalg.solve raised

vars == <<heap, df, cfg, use_pls, pc, raised, trading_days, mean_df, std_df,
          sharpe_df, cell, daily_returns, di, day_df, exp_ret, realized_ret,
          feats, F_t, cov, w, ofs_Ft, rng, trace, writes, rff_log, singular>>

\* the reference of the caller's frame, the argument merged_df
MergedRef == 1

\* the argument factor_names
FactorNames == <<"F1">>

\* a reference no live object has
FreshRef(h) == CHOOSE r \in 1..(Cardinality(DOMAIN h) + 1) : r \notin DOMAIN h

\* the heap once the name df is bound to a new object holding frame f: the
\* object df was bound to is dropped unless the caller still holds it
Rebind(h, old, f) ==
    LET r    == FreshRef(h)
        keep == (DOMAIN h \ {old}) \cup {MergedRef}
    IN  [x \in keep \cup {r} |-> IF x = r THEN f ELSE h[x]]

\* variant that assigns the column to the caller's frame as well
SetItemOnCaller(h, ref, name, series) ==
    [x \in DOMAIN h |->
        IF x \in {ref, MergedRef} THEN SetColumn(h[x], name, series) ELSE h[x]]

\* df[name] = series: the object ref is changed in place
SetItem(h, ref, name, series) == [h EXCEPT ![ref] = SetColumn(h[ref], name, series)]

\* pd.DataFrame(index=index, columns=columns, dtype=float): all NaN
EmptyMatrix(index, columns) ==
    [index |-> index, columns |-> columns,
     data |-> [i \in DOMAIN index |-> [j \in DOMAIN columns |-> NaN]]]

\* variant that writes the whole column of the label
LocSetColumn(m, row, col, v) ==
    [m EXCEPT !.data = [i \in DOMAIN m.index |-> [j \in DOMAIN m.columns |->
        IF m.columns[j] = col THEN v ELSE m.data[i][j]]]]

\* m.loc[row, col] = v: every position carrying the two labels
LocSet(m, row, col, v) ==
    [m EXCEPT !.data = [i \in DOMAIN m.index |-> [j \in DOMAIN m.columns |->
        IF m.index[i] = row /\ m.columns[j] = col THEN v ELSE m.data[i][j]]]]

NRows == Len(cfg.n_factors_range)
NCols == Len(cfg.lambdas)

\* the loop variables of the c-th iteration of the nested loops of lines 68-69
CellN(c)   == cfg.n_factors_range[((c - 1) \div NCols) + 1]
CellLam(c) == cfg.lambdas[((c - 1) % NCols) + 1]

\* variant that keeps the list of the cell before
KeptReturns(old) == old

\* the value daily_returns has when the day loop of a cell begins (line 70)
FreshReturns(old) == <<>>

\* day_df[factor_names].to_numpy()
Exposures(rows) ==
    [p \in DOMAIN rows |-> [c \in DOMAIN FactorNames |-> rows[p][FactorNames[c]]]]

Failed(exc) == /\ pc' = "raised"
               /\ raised' = exc

Locals == <<day_df, exp_ret, realized_ret, feats, F_t, cov, w, ofs_Ft>>
Loop   == <<cell, daily_returns, di>>
Tables == <<mean_df, std_df, sharpe_df>>
Hist   == <<trace, writes, rff_log, singular>>

(***************************************************************************)
(* run_sharpe_sweep, statement by statement                                 *)
(***************************************************************************)
\* line 49: df = merged_df.copy()
CopyPanel ==
    /\ pc = "copy"
    /\ heap' = Rebind(heap, df, heap[MergedRef])
    /\ df' = FreshRef(heap)
    /\ pc' = "sort"
    /\ UNCHANGED <<cfg, use_pls, raised, trading_days, Tables, Loop, Locals, rng, Hist>>

\* line 50: df = df.sort_values(["TradingDay", "SecuCode"]).reset_index(drop=True)
SortPanel ==
    /\ pc = "sort"
    /\ heap' = Rebind(heap, df, reset_index(sort_values(heap[df])))
    /\ df' = FreshRef(heap)
    /\ pc' = "check"
    /\ UNCHANGED <<cfg, use_pls, raised, trading_days, Tables, Loop, Locals, rng, Hist>>

\* lines 53-54: if "ret" not in df.columns: raise ValueError
CheckRet ==
    /\ pc = "check"
    /\ IF "ret" \notin heap[df].columns
       THEN Failed("ValueError")
       ELSE pc' = "proxy" /\ UNCHANGED raised
    /\ UNCHANGED <<heap, df, cfg, use_pls, trading_days, Tables, Loop, Locals, rng, Hist>>

\* line 56: df["past_ret_ave"] = _compute_past_return_avg(df, window=5)
ProxyColumn ==
    /\ pc = "proxy"
    /\ heap' = SetItem(heap, df, "past_ret_ave", _compute_past_return_avg(heap[df], Window))
    /\ pc' = "dropna"
    /\ UNCHANGED <<df, cfg, use_pls, raised, trading_days, Tables, Loop, Locals, rng, Hist>>

\* line 57: df = df.dropna(subset=["past_ret_ave", "ret"])
DropNa ==
    /\ pc = "dropna"
    /\ heap' = Rebind(heap, df, dropna(heap[df], {"past_ret_ave", "ret"}))
    /\ df' = FreshRef(heap)
    /\ pc' = "setup"
    /\ UNCHANGED <<cfg, use_pls, raised, trading_days, Tables, Loop, Locals, rng, Hist>>

\* lines 59-66: trading_days, the column labels and the three empty matrices
Setup ==
    /\ pc = "setup"
    /\ trading_days' = Unique([p \in DOMAIN heap[df].rows |-> heap[df].rows[p].TradingDay])
    /\ LET cols == [j \in DOMAIN cfg.lambdas |-> LambdaLabel(cfg.lambdas[j])]
       IN  /\ mean_df' = EmptyMatrix(cfg.n_factors_range, cols)
           /\ std_df' = EmptyMatrix(cfg.n_factors_range, cols)
           /\ sharpe_df' = EmptyMatrix(cfg.n_factors_range, cols)
    /\ pc' = "loop"
    /\ UNCHANGED <<heap, df, cfg, use_pls, raised, Loop, Locals, rng, Hist>>

\* lines 68-70: the next (n_factors, lam) of the nested loops;
\* daily_returns = []
StartCell ==
    /\ pc = "loop"
    /\ cell < NRows * NCols
    /\ cell' = cell + 1
    /\ daily_returns' = FreshReturns(daily_returns)
    /\ di' = 0
    /\ trace' = <<>>
    /\ pc' = "days"
    /\ UNCHANGED <<heap, df, cfg, use_pls, raised, trading_days, Tables, Locals, rng,
                   writes, rff_log, singular>>

\* lines 72-77: the next day of trading_days; day_df, exp_ret, realized_ret
DaySlice ==
    /\ pc = "days"
    /\ di < Len(trading_days)
    /\ LET day  == trading_days[di + 1]
           rows == heap[df].rows
           f    == [heap[df] EXCEPT !.rows =
                       SelectAt(rows, {p \in DOMAIN rows : rows[p].TradingDay = day})]
       IN  /\ day_df' = f
           /\ exp_ret' = Column(f, "past_ret_ave")
           /\ realized_ret' = Column(f, "ret")
    /\ pc' = "rff"
    /\ UNCHANGED <<heap, df, cfg, use_pls, raised, trading_days, Tables, Loop,
                   feats, F_t, cov, w, ofs_Ft, rng, Hist>>

\* lines 80-81: feats = rff_features(...); feats.index = day_df.index
BuildFeatures ==
    /\ pc = "rff"
    /\ LET X == Exposures(day_df.rows)
           r == rff_features(X, Len(FactorNames), CellN(cell), cfg.random_seed, rng)
       IN  /\ rng' = r.rng
           /\ trace' = Append(trace, [day |-> trading_days[di + 1], step |-> "BuildFeatures",
                                      val |-> NaN])
           /\ IF r.raised # ""
              THEN /\ Failed(r.raised)
                   /\ UNCHANGED <<feats, rff_log>>
              ELSE /\ feats' = [index |-> [p \in DOMAIN day_df.rows |-> day_df.rows[p].idx],
                                values |-> r.values, ncols |-> r.ncols]
                   /\ rff_log' = Append(rff_log, [n |-> CellN(cell), X |-> X,
                                    omega |-> r.omega, gamma |-> r.gamma, values |-> r.values])
                   /\ pc' = IF use_pls THEN "pls" ELSE "est_proxy"
                   /\ UNCHANGED raised
    /\ UNCHANGED <<heap, df, cfg, use_pls, trading_days, Tables, Loop, day_df, exp_ret,
                   realized_ret, F_t, cov, w, ofs_Ft, writes, singular>>

\* lines 84-85: feats = pls_reduce(feats, exp_ret, cfg.n_pls_components)
Reduce ==
    /\ pc = "pls"
    /\ LET r == pls_reduce(feats.index, feats.values, feats.ncols,
                           [p \in DOMAIN exp_ret |-> exp_ret[p].val], cfg.n_pls_components)
       IN  IF r.raised # ""
           THEN /\ Failed(r.raised)
                /\ UNCHANGED feats
           ELSE /\ feats' = [index |-> r.index, values |-> r.values, ncols |-> r.ncols]
                /\ pc' = "est_proxy"
                /\ UNCHANGED raised
    /\ trace' = Append(trace, [day |-> trading_days[di + 1], step |-> "Reduce", val |-> NaN])
    /\ UNCHANGED <<heap, df, cfg, use_pls, trading_days, Tables, Loop, day_df, exp_ret,
                   realized_ret, F_t, cov, w, ofs_Ft, rng, writes, rff_log, singular>>

\* line 88: F_t, cov = expected_return_and_cov(feats, exp_ret)
EstimateProxy ==
    /\ pc = "est_proxy"
    /\ LET r == expected_return_and_cov(feats.index, feats.values, feats.ncols, exp_ret)
       IN  /\ F_t' = r.F_t
           /\ cov' = r.cov
    /\ trace' = Append(trace, [day |-> trading_days[di + 1], step |-> "EstimateProxy",
                               val |-> NaN])
    /\ pc' = "solve"
    /\ UNCHANGED <<heap, df, cfg, use_pls, raised, trading_days, Tables, Loop, day_df,
                   exp_ret, realized_ret, feats, w, ofs_Ft, rng, writes, rff_log, singular>>

\* lines 91-92: w_df = ridge_markowitz_weights(F_t, cov, lambdas=[lam]);
\* w = w_df[f"Lambda_{lam}"]
SolveWeights ==
    /\ pc = "solve"
    /\ LET r == ridge_markowitz_weights(F_t, cov, <<CellLam(cell)>>)
       IN  IF r.raised # ""
           THEN /\ Failed(r.raised)
                /\ singular' = singular \cup {cell}
                /\ UNCHANGED w
           ELSE /\ w' = r.out[CHOOSE i \in DOMAIN r.out :
                                r.out[i].label = LambdaLabel(CellLam(cell))].w
                /\ pc' = "est_real"
                /\ UNCHANGED <<raised, singular>>
    /\ trace' = Append(trace, [day |-> trading_days[di + 1], step |-> "SolveWeights",
                               val |-> NaN])
    /\ UNCHANGED <<heap, df, cfg, use_pls, trading_days, Tables, Loop, day_df, exp_ret,
                   realized_ret, feats, F_t, cov, ofs_Ft, rng, writes, rff_log>>

\* line 95: ofs_Ft, _ = expected_return_and_cov(feats, realized_ret)
EstimateRealized ==
    /\ pc = "est_real"
    /\ ofs_Ft' = expected_return_and_cov(feats.index, feats.values, feats.ncols,
                                          realized_ret).F_t
    /\ trace' = Append(trace, [day |-> trading_days[di + 1], step |-> "EstimateRealized",
                               val |-> NaN])
    /\ pc' = "ret"
    /\ UNCHANGED <<heap, df, cfg, use_pls, raised, trading_days, Tables, Loop, day_df,
                   exp_ret, realized_ret, feats, F_t, cov, w, rng, writes, rff_log, singular>>

\* lines 96-97: day_return = float(w @ ofs_Ft); daily_returns.append(day_return)
ComputeReturn ==
    /\ pc = "ret"
    /\ LET day_return == Fl(Dot(w, ofs_Ft))
       IN  /\ daily_returns' = Append(daily_returns, day_return)
           /\ trace' = Append(trace, [day |-> trading_days[di + 1], step |-> "ComputeReturn",
                                      val |-> day_return])
    /\ di' = di + 1
    /\ pc' = "days"
    /\ UNCHANGED <<heap, df, cfg, use_pls, raised, trading_days, Tables, cell, Locals, rng,
                   writes, rff_log, singular>>

\* line 103: (mu / sig) if sig > 0 else np.nan
SharpeOf(mu, sig) == IF RGt(sig, R(0)) THEN FDiv(mu, sig) ELSE NaN

\* lines 99-103: mu, sig and the three .loc assignments of the cell
Aggregate ==
    /\ pc = "days"
    /\ di = Len(trading_days)
    /\ LET mu  == NpMean(daily_returns)
           sig == NpStd(daily_returns)
           row == CellN(cell)
           col == LambdaLabel(CellLam(cell))
       IN  /\ mean_df' = LocSet(mean_df, row, col, mu)
           /\ std_df' = LocSet(std_df, row, col, sig)
           /\ sharpe_df' = LocSet(sharpe_df, row, col, SharpeOf(mu, sig))
           /\ writes' = writes \o
                  << [frame |-> "mean", row |-> row, col |-> col, val |-> mu],
                     [frame |-> "std", row |-> row, col |-> col, val |-> sig],
                     [frame |-> "sharpe", row |-> row, col |-> col, val |-> SharpeOf(mu, sig)] >>
    /\ pc' = "loop"
    /\ UNCHANGED <<heap, df, cfg, use_pls, raised, trading_days, Loop, Locals, rng,
                   trace, rff_log, singular>>

\* line 105: return SweepResult(sharpe=sharpe_df, mean=mean_df, std=std_df)
Return ==
    /\ pc = "loop"
    /\ cell = NRows * NCols
    /\ pc' = "done"
    /\ UNCHANGED <<heap, df, cfg, use_pls, raised, trading_days, Tables, Loop, Locals, rng,
                   Hist>>

Next ==
    \/ CopyPanel
    \/ SortPanel
    \/ CheckRet
    \/ ProxyColumn
    \/ DropNa
    \/ Setup
    \/ StartCell
    \/ DaySlice
    \/ BuildFeatures
    \/ Reduce
    \/ EstimateProxy
    \/ SolveWeights
    \/ EstimateRealized
    \/ ComputeReturn
    \/ Aggregate
    \/ Return

(***************************************************************************)
(* The calls explored: the Panel handed in and the configuration            *)
(***************************************************************************)
Assets == 1..MaxAssets
Days   == 1..MaxDays

\* an asset starting on LateStart has Window observations and no more
LateStart == MaxDays - Window + 1
StartChoices == {1, 2, LateStart}
RetPatterns == {0, 1}
ExposurePatterns == {0, 1}
NanDays == {0, 1, MaxDays}
GapDays == {0, 3}
Orders == {"asset", "day"}
Seeds == {42, 43}

\* The shape of a panel: per asset the first day it is listed; the day asset
\* 2 is not listed (0: none); the day the return of asset 1 is missing (0:
\* none); how returns and exposures vary; the row order; whether the frame
\* has the column "ret".
PanelShapes ==
    [start : {f \in [Assets -> StartChoices] : \A a \in Assets : a # 2 => f[a] # 2}, rp : RetPatterns, xp : ExposurePatterns,
     nan : NanDays, gap : GapDays, order : Orders, has_ret : BOOLEAN]

Listed(q, a, t) == q.start[a] <= t /\ ~(a = 2 /\ t = q.gap)

RetOf(q, a, t) == IF a = 1 /\ t = q.nan THEN NaN ELSE R(((t * q.rp + a) % 3) - 1)

ExposureOf(q, a, t) == R(((a + t * q.xp) % 4) - 1)

PanelRow(q, a, t) ==
    LET full == [idx |-> a * (MaxDays + 1) + t, TradingDay |-> t, SecuCode |-> a,
                 ret |-> RetOf(q, a, t), F1 |-> ExposureOf(q, a, t)]
    IN  IF q.has_ret THEN full
        ELSE [c \in {"idx", "TradingDay", "SecuCode", "F1"} |-> full[c]]

\* the rows of asset a in day order, and the rows of day t in asset order
RowsOfAsset(q, a) ==
    SelectAt([t \in Days |-> PanelRow(q, a, t)], {t \in Days : Listed(q, a, t)})

RowsOfDay(q, t) ==
    SelectAt([a \in Assets |-> PanelRow(q, a, t)], {a \in Assets : Listed(q, a, t)})

RECURSIVE AssetMajor(_, _)
AssetMajor(q, a) == IF a = 0 THEN <<>> ELSE AssetMajor(q, a - 1) \o RowsOfAsset(q, a)

RECURSIVE DayMajor(_, _)
DayMajor(q, t) == IF t = 0 THEN <<>> ELSE DayMajor(q, t - 1) \o RowsOfDay(q, t)

\* the frame: sorted by (SecuCode, TradingDay), as the preprocessing leaves
\* it, or by (TradingDay, SecuCode)
Panel(q) ==
    [columns |-> {"TradingDay", "SecuCode", "F1"} \cup (IF q.has_ret THEN {"ret"} ELSE {}),
     rows |-> IF q.order = "asset" THEN AssetMajor(q, MaxAssets) ELSE DayMajor(q, MaxDays)]

\* the ordered sets of the configuration
AscendingSeqs(S, maxlen) ==
    {s \in UNION {[1..l -> S] : l \in 0..maxlen} :
        \A i, j \in DOMAIN s : i < j => s[i] < s[j]}

\* a component count PLSRegression refuses for every n_factors of the model
TooManyComponents == 2 * MaxNFactors + 1

Configs ==
    [n_factors_range : AscendingSeqs((-1)..MaxNFactors, MaxGrid),
     lambdas : {[j \in DOMAIN s |-> R(s[j])] : s \in AscendingSeqs(0..MaxLambda, MaxGrid)},
     random_seed : Seeds,
     n_pls_components : {1, TooManyComponents}]

\* one (n_factors, lambda) cell
OneCell(c) == c.n_factors_range = <<1>> /\ c.lambdas = <<R(1)>>

\* the panels every configuration is run on
PlainPanel(q) ==
    /\ q.rp = 1 /\ q.xp = 0 /\ q.nan = 0 /\ q.gap = 0 /\ q.order = "asset" /\ q.has_ret
    /\ \/ \A a \in Assets : q.start[a] = 1
       \/ \A a \in Assets : q.start[a] = LateStart
       \/ \A a \in Assets : q.start[a] = (IF a <= 2 THEN a ELSE LateStart)
       \/ \A a \in Assets : q.start[a] = (IF a <= 2 THEN 1 ELSE LateStart)

InitCall(q, c, u) ==
    /\ heap = [r \in {MergedRef} |-> Panel(q)]
    /\ df = MergedRef
    /\ cfg = c
    /\ use_pls = u
    /\ pc = "copy"
    /\ raised = ""
    /\ trading_days = <<>>
    /\ mean_df = EmptyMatrix(<<>>, <<>>)
    /\ std_df = EmptyMatrix(<<>>, <<>>)
    /\ sharpe_df = EmptyMatrix(<<>>, <<>>)
    /\ cell = 0
    /\ daily_returns = <<>>
    /\ di = 0
    /\ day_df = [columns |-> {}, rows |-> <<>>]
    /\ exp_ret = <<>>
    /\ realized_ret = <<>>
    /\ feats = [index |-> <<>>, values |-> <<>>, ncols |-> 0]
    /\ F_t = <<>>
    /\ cov = <<>>
    /\ w = <<>>
    /\ ofs_Ft = <<>>
    /\ rng = 0
    /\ trace = <<>>
    /\ writes = <<>>
    /\ rff_log = <<>>
    /\ singular = {}

\* every panel shape under one cell, and every configuration on the plain
\* panels
Init ==
    \/ \E q \in PanelShapes, c \in {x \in Configs : OneCell(x)}, u \in BOOLEAN :
            /\ u \/ c.n_pls_components = 1
            /\ InitCall(q, c, u)
    \/ \E q \in {x \in PanelShapes : PlainPanel(x)},
          c \in {x \in Configs : x.random_seed = 43 /\ x.n_pls_components = 1},
          u \in BOOLEAN :
            InitCall(q, c, u)

Spec == Init /\ [][Next]_vars

(***************************************************************************)
(* Lines 99-105 on their own: the aggregation of one cell over the lists of *)
(* daily returns that the day loop can leave behind.  The frames and the    *)
(* locals of the day loop are not read by these lines.                      *)
(***************************************************************************)
\* the floating-point numbers k/2 a daily return is drawn from
ReturnValues == {Fl(Rat(k, 2)) : k \in (-2)..7}

ReturnLists == UNION {[1..l -> ReturnValues] : l \in 0..MaxReturns}

\* the state at line 99 of the only cell of a sweep, after the day loop
InitAgg ==
    \E rs \in ReturnLists, u \in BOOLEAN :
        /\ heap = [r \in {MergedRef, MergedRef + 1} |->
                      [columns |-> {"SecuCode", "TradingDay", "ret", "idx"} \cup
                                   {FactorNames[c] : c \in DOMAIN FactorNames} \cup
                                   (IF r = MergedRef THEN {} ELSE {"past_ret_ave"}),
                       rows |-> <<>>]]
        /\ df = MergedRef + 1
        /\ cfg = [n_factors_range |-> <<1>>, lambdas |-> <<R(1)>>,
                  random_seed |-> 42, n_pls_components |-> 1]
        /\ use_pls = u
        /\ pc = "days"
        /\ raised = ""
        /\ trading_days = [i \in 1..Len(rs) |-> Window + i]
        /\ mean_df = EmptyMatrix(<<1>>, <<LambdaLabel(R(1))>>)
        /\ std_df = EmptyMatrix(<<1>>, <<LambdaLabel(R(1))>>)
        /\ sharpe_df = EmptyMatrix(<<1>>, <<LambdaLabel(R(1))>>)
        /\ cell = 1
        /\ daily_returns = rs
        /\ di = Len(rs)
        /\ day_df = [columns |-> {}, rows |-> <<>>]
        /\ exp_ret = <<>>
        /\ realized_ret = <<>>
        /\ feats = [index |-> <<>>, values |-> <<>>, ncols |-> 0]
        /\ F_t = <<>>
        /\ cov = <<>>
        /\ w = <<>>
        /\ ofs_Ft = <<>>
        /\ rng = 0
        /\ trace = <<>>
        /\ writes = <<>>
        /\ rff_log = <<>>
        /\ singular = {}

NextAgg ==
    \/ Aggregate
    \/ Return

SpecAgg == InitAgg /\ [][NextAgg]_vars

(***************************************************************************)
(* Properties                                                               *)
(***************************************************************************)
DailyPcs == {"rff", "pls", "est_proxy", "solve", "est_real", "ret"}

\* the positions from the sweep loop on
LoopPcs == {"loop", "days", "done"} \cup DailyPcs

NumCells == NRows * NCols

\* the entry of matrix m for the c-th cell of the grid
Entry(m, c) == m.data[((c - 1) \div NCols) + 1][((c - 1) % NCols) + 1]

\* the writes into matrix name at the labels of the c-th cell
WritesOf(name, c) ==
    {k \in DOMAIN writes : /\ writes[k].frame = name
                           /\ writes[k].row = CellN(c)
                           /\ writes[k].col = LambdaLabel(CellLam(c))}

\* C1: when the ridge system (Cov + lambda I) is singular for some day of a
\* cell, the sweep does not stop: only that cell is skipped and left NaN in
\* mean, std and sharpe, every other cell is evaluated and written, and the
\* SweepResult is returned.
C1_SingularCellSkipped ==
    /\ singular # {} => pc # "raised"
    /\ pc = "done" =>
          \A c \in 1..NumCells :
              IF c \in singular
              THEN /\ IsNaN(Entry(mean_df, c))
                   /\ IsNaN(Entry(std_df, c))
                   /\ IsNaN(Entry(sharpe_df, c))
              ELSE /\ WritesOf("mean", c) # {}
                   /\ WritesOf("std", c) # {}
                   /\ WritesOf("sharpe", c) # {}

\* the configurations the specification calls configuration errors
InvalidConfig ==
    \/ cfg.n_factors_range = <<>>
    \/ cfg.lambdas = <<>>
    \/ \E i \in DOMAIN cfg.n_factors_range : cfg.n_factors_range[i] <= 0
    \/ use_pls /\ \E i \in DOMAIN cfg.n_factors_range :
                     cfg.n_pls_components > 2 * cfg.n_factors_range[i]

\* C2: under a configuration error (an empty n_factors_range or lambdas, an
\* n_factors <= 0, reduction with n_pls_components > 2 * n_factors) the call
\* fails before any computation: no daily evaluation is performed, no cell
\* is written and no SweepResult is returned.
C2_ConfigErrorFatalUpFront ==
    InvalidConfig => /\ pc \notin DailyPcs
                     /\ writes = <<>>
                     /\ pc # "done"

\* C3: when the proxy / realized-return filtering leaves no trading day, the
\* call aborts before the sweep loop: it never aggregates an empty list of
\* daily returns and never returns a SweepResult.
C3_NoEligibleDayIsFatal ==
    (pc \in LoopPcs /\ trading_days = <<>>) =>
        /\ pc \notin {"days", "done"}
        /\ cell = 0
        /\ writes = <<>>

\* the number of rows the filtered frame has for day d
AssetsOn(d) == Cardinality({p \in DOMAIN heap[df].rows : heap[df].rows[p].TradingDay = d})

\* C4: a trading day with fewer than 2 assets left after the filtering never
\* reaches the cross-sectional estimator, in any cell, and contributes no
\* entry to a cell's list of daily returns.
C4_SmallDaysDropped ==
    /\ pc \in {"est_proxy", "solve", "est_real", "ret"} => Len(day_df.rows) >= 2
    /\ pc \in LoopPcs =>
          \A k \in DOMAIN trace :
              trace[k].step = "ComputeReturn" => AssetsOn(trace[k].day) >= 2

\* C5: for a fixed random_seed and n_factors every call of rff_features
\* draws the same (Omega, gamma), whatever the day and the lambda, and two
\* calls on the same exposure matrix return the same feature matrix.
C5_SameProjection ==
    \A i, j \in DOMAIN rff_log :
        rff_log[i].n = rff_log[j].n =>
            /\ rff_log[i].omega = rff_log[j].omega
            /\ rff_log[i].gamma = rff_log[j].gamma
            /\ rff_log[i].X = rff_log[j].X => rff_log[i].values = rff_log[j].values

\* two calls with one n_factors on the same exposures and two on different
\* exposures, with a projection that is not zero
C5_Witness ==
    /\ pc = "done"
    /\ \E i, j \in DOMAIN rff_log :
          /\ i < j
          /\ rff_log[i].n = rff_log[j].n
          /\ rff_log[i].X = rff_log[j].X
          /\ \E c \in DOMAIN rff_log[i].omega, k \in 1..rff_log[i].n :
                rff_log[i].omega[c][k] # R(0)
    /\ \E i, j \in DOMAIN rff_log :
          /\ rff_log[i].n = rff_log[j].n
          /\ rff_log[i].X # rff_log[j].X

\* the cells aggregated so far
Aggregated == Len(writes) \div 3

WellShaped(m) ==
    /\ m.index = cfg.n_factors_range
    /\ m.columns = [j \in DOMAIN cfg.lambdas |-> LambdaLabel(cfg.lambdas[j])]
    /\ Len(m.data) = NRows
    /\ \A i \in DOMAIN m.data : Len(m.data[i]) = NCols

WrittenOnce(name, m) ==
    \A c \in 1..NumCells :
        IF c <= Aggregated
        THEN /\ Cardinality(WritesOf(name, c)) = 1
             /\ \A k \in WritesOf(name, c) : Entry(m, c) = writes[k].val
        ELSE /\ WritesOf(name, c) = {}
             /\ IsNaN(Entry(m, c))

\* C6: the three matrices have one row per n_factors and one column per
\* lambda, in the order of the configuration; a cell is written once, at
\* row n_factors and column Lambda_<lam>, when it is aggregated, and keeps
\* the value written whatever is written later; after a completed sweep
\* every cell has been written.
C6_OneWritePerCell ==
    pc \in LoopPcs =>
        /\ WellShaped(mean_df) /\ WellShaped(std_df) /\ WellShaped(sharpe_df)
        /\ Len(writes) = 3 * Aggregated
        /\ WrittenOnce("mean", mean_df)
        /\ WrittenOnce("std", std_df)
        /\ WrittenOnce("sharpe", sharpe_df)
        /\ pc = "done" => Aggregated = NumCells

\* a completed sweep over a grid of 2 x 2 with four different means
C6_Witness ==
    /\ pc = "done"
    /\ NRows = 2 /\ NCols = 2
    /\ \A c, e \in 1..NumCells :
          /\ ~IsNaN(Entry(mean_df, c))
          /\ c # e => Entry(mean_df, c) # Entry(mean_df, e)

\* C8: the frame handed in is never changed: its rows, their order and its
\* columns are the same after every step, whether the call returns or raises.
C8_PanelUntouched == [][heap'[MergedRef] = heap[MergedRef]]_vars

\* a call that returned, whose own frame has the proxy column and fewer rows
\* in another order than the frame handed in
C8_Witness ==
    /\ pc = "done"
    /\ "past_ret_ave" \in heap[df].columns
    /\ "past_ret_ave" \notin heap[MergedRef].columns
    /\ Len(heap[df].rows) < Len(heap[MergedRef].rows)
    /\ heap[df].rows # <<>>
    /\ heap[MergedRef] # sort_values(heap[MergedRef])

\* the number of the observation of asset a on day t in frame f, by day
ObsNumber(f, a, t) ==
    Cardinality({p \in DOMAIN f.rows : f.rows[p].SecuCode = a /\ f.rows[p].TradingDay <= t})

\* the return of the k-th observation of asset a
RetAtObs(f, a, k) ==
    f.rows[CHOOSE p \in DOMAIN f.rows :
              /\ f.rows[p].SecuCode = a
              /\ ObsNumber(f, a, f.rows[p].TradingDay) = k].ret

\* the mean of the returns of observations k - Window .. k - 1 of asset a
TrailingMean(f, a, k) ==
    IF k <= Window THEN NaN
    ELSE RDiv(RSum([i \in 1..Window |-> RetAtObs(f, a, k - Window - 1 + i)]), R(Window))

ProxyIsTrailingMean(r) ==
    r.past_ret_ave = TrailingMean(heap[MergedRef], r.SecuCode,
                                  ObsNumber(heap[MergedRef], r.SecuCode, r.TradingDay))

\* C9: the proxy of asset a on its k-th observation (by trading day, over
\* the asset's whole history) is the mean of a's returns on observations
\* k-5 .. k-1 and of nothing else; it is undefined on the first 5
\* observations, whose rows are gone before the evaluation, so that every
\* evaluated row is at least the 6th observation of its asset.  Checked
\* where the column is assigned (before and after the rows are dropped) and
\* on every day slice handed to the daily evaluation.
C9_ProxyIsTrailingMean ==
    /\ pc = "dropna" =>
          \A p \in DOMAIN heap[df].rows :
              LET r == heap[df].rows[p]
              IN  /\ ProxyIsTrailingMean(r)
                  /\ ObsNumber(heap[MergedRef], r.SecuCode, r.TradingDay) <= Window
                        => IsNaN(r.past_ret_ave)
    /\ pc = "setup" =>
          \A p \in DOMAIN heap[df].rows :
              LET r == heap[df].rows[p]
              IN  /\ ProxyIsTrailingMean(r)
                  /\ ~IsNaN(r.past_ret_ave)
                  /\ ObsNumber(heap[MergedRef], r.SecuCode, r.TradingDay) >= Window + 1
    /\ pc = "rff" =>
          \A p \in DOMAIN day_df.rows :
              LET r == day_df.rows[p]
              IN  /\ ProxyIsTrailingMean(r)
                  /\ ObsNumber(heap[MergedRef], r.SecuCode, r.TradingDay) >= Window + 1

\* a day is evaluated with an asset whose proxy differs from its return of
\* the day, and that asset was not listed on every day before
C9_Witness ==
    /\ pc = "ret"
    /\ \E p \in DOMAIN day_df.rows :
          LET r == day_df.rows[p]
          IN  /\ r.past_ret_ave # r.ret
              /\ r.past_ret_ave # R(0)
              /\ ObsNumber(heap[MergedRef], r.SecuCode, r.TradingDay) < r.TradingDay

\* the steps of one daily evaluation
StepsOfDay ==
    IF use_pls
    THEN <<"BuildFeatures", "Reduce", "EstimateProxy", "SolveWeights", "EstimateRealized",
           "ComputeReturn">>
    ELSE <<"BuildFeatures", "EstimateProxy", "SolveWeights", "EstimateRealized",
           "ComputeReturn">>

\* the steps of the day being evaluated that are done at position pc
StepsDoneAt(p) ==
    CASE p = "days" -> 0
      [] p = "rff" -> 0
      [] p = "pls" -> 1
      [] p = "est_proxy" -> IF use_pls THEN 2 ELSE 1
      [] p = "solve" -> IF use_pls THEN 3 ELSE 2
      [] p = "est_real" -> IF use_pls THEN 4 ELSE 3
      [] p = "ret" -> IF use_pls THEN 5 ELSE 4

\* C10: in every cell the daily evaluation runs BuildFeatures, (Reduce iff
\* use_pls), EstimateProxy, SolveWeights, EstimateRealized, ComputeReturn in
\* this order, once per day of trading_days, the days ascending; the cell's
\* list of daily returns starts empty and holds, when the cell is
\* aggregated, the return of each of these days computed in this cell, in
\* day order, and nothing else.
C10_DailyStepsInOrder ==
    pc \in DailyPcs \cup {"days"} =>
        /\ \A i, j \in DOMAIN trading_days : i < j => trading_days[i] < trading_days[j]
        /\ Len(trace) = di * Len(StepsOfDay) + StepsDoneAt(pc)
        /\ \A k \in DOMAIN trace :
              /\ trace[k].step = StepsOfDay[((k - 1) % Len(StepsOfDay)) + 1]
              /\ trace[k].day = trading_days[((k - 1) \div Len(StepsOfDay)) + 1]
        /\ daily_returns = [i \in 1..di |-> trace[i * Len(StepsOfDay)].val]
        /\ di <= Len(trading_days)

\* the second cell of a grid is about to be aggregated over two days
C10_Witness ==
    /\ pc = "days"
    /\ cell >= 2
    /\ di = Len(trading_days)
    /\ di >= 2
    /\ ~IsNaN(daily_returns[1])
    /\ daily_returns[1] # daily_returns[2]

\* all the daily returns of the list are one number
Flat(rs) == rs # <<>> /\ \A i \in DOMAIN rs : ~IsNaN(rs[i]) /\ rs[i] = rs[1]

\* C7: once a cell is aggregated its sharpe entry is mean / std when the
\* std entry is > 0 and NaN when the std entry is 0; whenever all the daily
\* returns of the cell are one number (a single day included) the std entry
\* is 0 and the sharpe entry NaN; the mean and std entries are written.
C7_SharpeUndefinedWhenFlat ==
    (pc = "loop" /\ cell >= 1) =>
        LET mu  == Entry(mean_df, cell)
            sig == Entry(std_df, cell)
            sh  == Entry(sharpe_df, cell)
        IN  /\ WritesOf("mean", cell) # {} /\ WritesOf("std", cell) # {}
            /\ RGt(sig, R(0)) => sh = FDiv(mu, sig)
            /\ sig = R(0) => IsNaN(sh)
            /\ Flat(daily_returns) => sig = R(0) /\ IsNaN(sh)

\* the squared deviations of the returns rs from the number m, each one
\* subtraction and one multiplication in floating point
SquaredDeviations(rs, m) ==
    [i \in DOMAIN rs |-> Fl(RMul(Fl(RSub(rs[i], m)), Fl(RSub(rs[i], m))))]

\* C11: once a cell with N >= 1 daily returns r_1 .. r_N is aggregated, its
\* mean entry is (sum r_i) / N and its std entry is the square root of
\* (sum (r_i - mean)^2) / N, the divisor being N and not N - 1, every
\* operation rounded once; with N = 1 the mean entry is r_1 and the std
\* entry 0.
C11_PopulationStd ==
    (pc = "loop" /\ cell >= 1 /\ Len(daily_returns) >= 1) =>
        LET rs == daily_returns
            N  == Len(rs)
            mu  == Entry(mean_df, cell)
            sig == Entry(std_df, cell)
        IN  /\ mu = Fl(RDiv(FSum(rs), R(N)))
            /\ sig = FSqrt(Fl(RDiv(FSum(SquaredDeviations(rs, mu)), R(N))))
            /\ (N = 1 /\ ~IsNaN(rs[1])) => mu = rs[1] /\ sig = R(0)

\* a cell of three returns, not all equal, is aggregated, and the divisor
\* N - 1 would have given another std
C11_Witness ==
    /\ pc = "loop"
    /\ cell >= 1
    /\ Len(daily_returns) >= 3
    /\ ~Flat(daily_returns)
    /\ RGt(Entry(std_df, cell), R(0))
    /\ Entry(std_df, cell) #
          FSqrt(Fl(RDiv(FSum(SquaredDeviations(daily_returns, Entry(mean_df, cell))),
                        R(Len(daily_returns) - 1))))

====
